---- MODULE Spec2Model ----
(***************************************************************************)
(* State-machine model of the video compressor's orchestration:            *)
(*   src/compress.py  get_video_details, monitor_ffmpeg_progress,          *)
(*                    compress_video_gpu, process_files_recursively.       *)
(*   src/old/compress_h265.py  the parallel scheduler: task distribution,  *)
(*                    the worker pool, the serial GPU lane, the interrupt  *)
(*                    handler and the summary.                             *)
(* The external tools (ffprobe, ffmpeg) are environment processes whose    *)
(* outputs are nondeterministic.                                           *)
(***************************************************************************)
EXTENDS Integers, Sequences, FiniteSets, TLC

\* ------------------------------------------------------------------ bounds
MaxFiles == 2
MaxRuns == 2
MaxSize == 11
MaxFrame == 12
MaxBlocks == 2
MaxWorkers == 2
MaxJobs == 3

\* ------------------------------------------------------- program constants
TARGET_BITRATE_KBPS == 2000
MINIMUM_COMPRESSION_PERCENT == 10
CQ_THRESHOLD_KBPS == 2500
bar_length == 40
BITRATE_THRESHOLD == 2000000
CRF_BITRATE_THRESHOLD == 2000000

VIDEO_EXTENSIONS == {"mp4", "mkv", "avi", "mov", "webm", "flv", "wmv", "m4v"}

\* The "MODE" entry of each preset of QUALITY_PRESETS.
QUALITY_PRESETS ==
    [best_quality_at_size |-> "VBR", best_for_quality |-> "CQ",
     balanced |-> "CQ", best_for_size |-> "CQ", extreme_720p |-> "CQ"]

Modes == {QUALITY_PRESETS[k] : k \in DOMAIN QUALITY_PRESETS}

\* ------------------------------------------------------------------- paths
\* A path relative to its root folder: a stem and an extension.
NoPath == [stem |-> "", ext |-> ""]

WalkPaths ==
    {[stem |-> "a", ext |-> "mkv"], [stem |-> "a", ext |-> "avi"],
     [stem |-> "a", ext |-> "txt"], [stem |-> "b", ext |-> "MKV"],
     [stem |-> ".h", ext |-> "mkv"]}

\* str.startswith(".") on the file name.
hidden(p) == p.stem \in {".h"}

InputPaths == {p \in WalkPaths : ~hidden(p)}

\* str.lower() on the extensions the model uses.
lower(ext) == IF ext = "MKV" THEN "mkv" ELSE ext

is_video(p) == lower(p.ext) \in VIDEO_EXTENSIONS

\* os.path.splitext(relative_path)[0] + ".mp4" for a video, else the same
\* relative path.
output_path(p) == IF is_video(p) THEN [stem |-> p.stem, ext |-> "mp4"] ELSE p

OutPaths == {output_path(p) : p \in InputPaths}

\* ---------------------------------------------------------- file contents
Absent == [kind |-> "absent", src |-> NoPath, size |-> 0]

\* What shutil.copy2(input_path, output_path) leaves at output_path.
copy2(p, sz) == [kind |-> "copy", src |-> p, size |-> sz]

\* What the engine leaves at its output target.
Encoded(p, sz) == [kind |-> "encoded", src |-> p, size |-> sz]

InputSizes == {0, MaxSize - 1, MaxSize}
EngineSizes == {0, MaxSize - 2, MaxSize - 1}

\* All orderings of a finite set, as sequences without repetition.
RECURSIVE Orderings(_)
Orderings(S) ==
    IF S = {} THEN {<<>>}
    ELSE UNION {{<<x>> \o s : s \in Orderings(S \ {x})} : x \in S}

\* -------------------------------------------------------------- the probe
\* A numeric text field of ffprobe's JSON is modelled by its integer value;
\* NotInt stands for a text int() rejects (such as "N/A").
NotInt == 0 - 1

BitRates ==
    {0, TARGET_BITRATE_KBPS * 1000 - 1, TARGET_BITRATE_KBPS * 1000,
     CQ_THRESHOLD_KBPS * 1000 - 1, CQ_THRESHOLD_KBPS * 1000}

Codecs == {"hevc", "h264", "None"}

\* The second ffprobe call (-show_format), consulted only when the stream
\* bit rate is 0.
FormatReplies(b) ==
    IF b # 0 THEN {[run |-> "ok", bit_rate |-> 0]}
    ELSE {[run |-> r, bit_rate |-> 0] : r \in {"missing", "failed", "badjson"}}
         \cup {[run |-> "ok", bit_rate |-> fb] : fb \in BitRates \cup {NotInt}}

\* duration (whole seconds) and avg_frame_rate "num/den", consulted only
\* when nb_frames is 0.  slash is FALSE for a rate text without "/".
FrameRates(n) ==
    IF n # 0 THEN {[duration |-> 0, slash |-> TRUE, num |-> 0, den |-> 1]}
    ELSE {[duration |-> 2, slash |-> TRUE, num |-> MaxFrame - 1, den |-> 2],
          [duration |-> 0, slash |-> TRUE, num |-> MaxFrame - 1, den |-> 2],
          [duration |-> 2, slash |-> FALSE, num |-> 0, den |-> 1],
          [duration |-> 2, slash |-> TRUE, num |-> 1, den |-> 0],
          [duration |-> 2, slash |-> TRUE, num |-> NotInt, den |-> 1],
          [duration |-> NotInt, slash |-> TRUE, num |-> 1, den |-> 1]}

ProbeReplies ==
    {[run |-> r, streams |-> FALSE, codec_name |-> "None", bit_rate |-> 0,
      nb_frames |-> 0, format |-> [run |-> "ok", bit_rate |-> 0],
      rate |-> [duration |-> 0, slash |-> TRUE, num |-> 0, den |-> 1]] :
        r \in {"missing", "failed", "badjson", "ok"}}
    \cup
    UNION {UNION {UNION {
        {[run |-> "ok", streams |-> TRUE, codec_name |-> c, bit_rate |-> b,
          nb_frames |-> n, format |-> f, rate |-> fr] :
            c \in Codecs, fr \in FrameRates(n)}
        : f \in FormatReplies(b)}
        : b \in BitRates \cup {NotInt}}
        : n \in {0, MaxFrame - 1, NotInt}}

Details(kind, codec, bit_rate, total_frames) ==
    [kind |-> kind, codec |-> codec, bit_rate |-> bit_rate,
     total_frames |-> total_frames]

\* int(duration * (num / den)) when the texts parse and den # 0, else 0.
derived_frames(fr) ==
    IF fr.slash /\ fr.duration # 0
    THEN IF fr.duration = NotInt \/ fr.num = NotInt THEN 0
         ELSE IF fr.den # 0 THEN (fr.duration * fr.num) \div fr.den ELSE 0
    ELSE 0

\* get_video_details: kind "ok" is a returned tuple, "exit" is sys.exit(1),
\* "raise" is an exception the function does not catch.
get_video_details(reply) ==
    IF reply.run = "missing" THEN Details("exit", "None", 0, 0)
    ELSE IF reply.run \in {"failed", "badjson"} THEN Details("ok", "None", 0, 0)
    ELSE IF ~reply.streams THEN Details("ok", "None", 0, 0)
    ELSE IF reply.bit_rate = NotInt \/ reply.nb_frames = NotInt
         THEN Details("raise", "None", 0, 0)
    ELSE IF reply.bit_rate = 0 /\ reply.format.run = "missing"
         THEN Details("exit", "None", 0, 0)
    ELSE IF reply.bit_rate = 0 /\ reply.format.run \in {"failed", "badjson"}
         THEN Details("ok", "None", 0, 0)
    ELSE IF reply.bit_rate = 0 /\ reply.format.bit_rate = NotInt
         THEN Details("raise", "None", 0, 0)
    ELSE Details("ok", reply.codec_name,
                 IF reply.bit_rate = 0 THEN reply.format.bit_rate
                                       ELSE reply.bit_rate,
                 IF reply.nb_frames = 0 THEN derived_frames(reply.rate)
                                        ELSE reply.nb_frames)

\* ------------------------------------------------------------------- state
VARIABLES
    MODE,           \* preset_config["MODE"]
    all_files,      \* the walked list of input paths
    in_size,        \* the size of each input file, fixed by the first
                    \* read of the file (Unread before it)
    out_fs,         \* the output tree: what each output path holds
    log_fs,         \* output paths whose <stem>_ffmpeg_log.txt exists
    run,            \* which invocation of the script this is
    i,              \* 1-based position in all_files
    pc,             \* control location of the script
    exit_status,    \* the script's exit status once it has exited, else -1
    codec, bit_rate, total_frames,   \* locals of process_files_recursively
    success,        \* what compress_video_gpu returned
    pass,           \* the pass compress_video_gpu is in
    progress_file,  \* the temporary progress file
    proc,           \* the engine child process
    last_frame,     \* local of monitor_ffmpeg_progress
    current_frame,  \* what the monitor's latest poll parsed
    shown,          \* the progress line last written to the terminal
    results,        \* this run, per position: the job's reported outcome,
                    \* the engine processes started and the copies made
    completed       \* positions that reached a final outcome in an
                    \* earlier run

\* The state of src/old/compress_h265.py.  Its all_files is held as the
\* number of walked files, each file being known by its 0-based position.
VARIABLES
    CPU_WORKERS,        \* the configured number of software workers
    has_gpu_encoder,    \* what check_ffmpeg_encoders returned
    has_cpu_encoder,
    num_files,          \* len(all_files)
    main_pc,            \* control location of the main process
    gpu_tasks,          \* the task tuples (file, use_gpu, slot) of each lane
    cpu_tasks,
    cpu_slot,           \* the distribution loop's next software slot
    pool,               \* the multiprocessing.Pool
    next_gpu,           \* 1-based position of the GPU lane in gpu_tasks
    next_cpu,           \* 1-based position of the pool in cpu_tasks
    lane,               \* per process, the process_single_file call it is
                        \* in: 0 is the main process, 1.. the pool workers
    running,            \* the ffmpeg processes that are running
    print_lock,         \* the process holding the Manager lock
    cpu_results_iter,   \* how many results of each kind the pool holds
                        \* for the main process
    results_list,       \* results: how many times it holds each status
    summary,            \* the counts the summary printed
    main_exit           \* the main process's exit status, else -1

sched_vars ==
    <<CPU_WORKERS, has_gpu_encoder, has_cpu_encoder, num_files, main_pc,
      gpu_tasks, cpu_tasks, cpu_slot, pool, next_gpu, next_cpu, lane,
      running, print_lock, cpu_results_iter, results_list, summary,
      main_exit>>

\* The variables of src/compress.py.
core_vars ==
    <<MODE, all_files, in_size, out_fs, log_fs, run, i, pc, exit_status,
      codec, bit_rate, total_frames, success, pass, progress_file, proc,
      last_frame, current_frame, shown, results, completed>>

vars == <<core_vars, sched_vars>>

\* The variables of one compress_video_gpu call and its monitor.
gpu_vars == <<pass, progress_file, proc, last_frame, current_frame, shown>>

\* The variables of the per-file locals.
probe_vars == <<codec, bit_rate, total_frames>>

NoJob == [outcome |-> "none", engines |-> <<>>, copies |-> 0]

NoProc == [state |-> "none", pass |-> "none", code |-> 0, opened |-> FALSE,
           blocks |-> 0, frame |-> 0 - 1]

NoFile == [exists |-> FALSE, blocks |-> <<>>]

NoLine == [frame |-> 0 - 1, percent10 |-> 0, filled |-> 0, complete |-> FALSE]

NoFrame == 0 - 1

input_path == all_files[i]

Unread == 0 - 1

\* The sizes a read of input p can find: its files do not change.
Stat(p) == IF in_size[p] = Unread THEN InputSizes ELSE {in_size[p]}

\* ---------------------------------------------------------------- helpers
Report(o) == [results EXCEPT ![i].outcome = o]

ReportCopy(o) ==
    [results EXCEPT ![i].outcome = o, ![i].copies = @ + 1]

Started(p) ==
    [results EXCEPT ![i].engines = Append(@, [pass |-> p, code |-> 0 - 1])]

Exited(c) ==
    [results EXCEPT ![i].engines =
        [@ EXCEPT ![Len(@)].code = c]]

\* Variant: an empty file does not count as existing.
exists_nonempty(path) == out_fs[path].kind # "absent" /\ out_fs[path].size > 0

\* os.path.exists(output_path)
exists(path) == out_fs[path].kind # "absent"

\* ------------------------------------------------- the scheduler, at rest
NoFileIndex == 0 - 1

NoCode == 0 - 1

NoHolder == 0 - 1

NoSummary == <<>>

Procs == 0..MaxWorkers

\* A process that is in no process_single_file call.
IdleLane ==
    [pc |-> "idle", file |-> NoFileIndex, slot |-> 0, code |-> NoCode,
     status |-> "none"]

\* The values result_status takes.
Statuses == {"compressed", "copied_video", "copied_other", "skipped", "error"}

\* What a finished process_single_file call hands back: a status, or the
\* exception it raised.
Returns == Statuses \cup {"raise"}

NoResults == [st \in Returns |-> 0]

\* src/old/compress_h265.py is not running.
SchedulerOff ==
    /\ CPU_WORKERS = 1
    /\ has_gpu_encoder = FALSE /\ has_cpu_encoder = FALSE
    /\ num_files = 0
    /\ main_pc = "off"
    /\ gpu_tasks = <<>> /\ cpu_tasks = <<>>
    /\ cpu_slot = 0
    /\ pool = "none"
    /\ next_gpu = 1 /\ next_cpu = 1
    /\ lane = [p \in Procs |-> IdleLane]
    /\ running = {}
    /\ print_lock = NoHolder
    /\ cpu_results_iter = NoResults
    /\ results_list = NoResults
    /\ summary = NoSummary
    /\ main_exit = 0 - 1

\* ------------------------------------------------------------------- Init
Init ==
    /\ SchedulerOff
    /\ MODE \in Modes
    /\ \E tree \in SUBSET WalkPaths :
        /\ Cardinality({p \in tree : ~hidden(p)}) <= MaxFiles
        /\ all_files \in Orderings({p \in tree : ~hidden(p)})
    /\ in_size = [p \in InputPaths |-> Unread]
    /\ out_fs = [p \in OutPaths |-> Absent]
    /\ log_fs = {}
    /\ run = 1
    /\ i = 1
    /\ pc = "loop"
    /\ exit_status = 0 - 1
    /\ codec = "None" /\ bit_rate = 0 /\ total_frames = 0
    /\ success = FALSE
    /\ pass = "none"
    /\ progress_file = NoFile
    /\ proc = NoProc
    /\ last_frame = 0
    /\ current_frame = NoFrame
    /\ shown = NoLine
    /\ results = [k \in 1..MaxFiles |-> NoJob]
    /\ completed = {}

\* --------------------------------------- process_files_recursively, top
\* The for loop is exhausted: process_files_recursively returns and the
\* script prints "Processing complete." and ends with status 0.
LoopEnd ==
    /\ pc = "loop" /\ i > Len(all_files)
    /\ pc' = "done"
    /\ exit_status' = 0
    /\ UNCHANGED <<completed, MODE, all_files, in_size, out_fs, log_fs, run, i,
                   probe_vars, success, gpu_vars, results>>
    /\ UNCHANGED sched_vars

\* Variant: the continue is missing, so the job goes on after the message.
Skip_Fallthrough ==
    /\ pc = "loop" /\ i <= Len(all_files)
    /\ exists(output_path(input_path))
    /\ shown' = NoLine
    /\ IF is_video(input_path)
       THEN /\ results' = Report("Skipped")
            /\ pc' = "probe"
            /\ UNCHANGED <<i, in_size, out_fs>>
       ELSE /\ \E sz \in Stat(input_path) :
                /\ in_size' = [in_size EXCEPT ![input_path] = sz]
                /\ out_fs' = [out_fs EXCEPT ![output_path(input_path)] =
                                copy2(input_path, sz)]
            /\ results' = ReportCopy("CopiedOther")
            /\ i' = i + 1
            /\ UNCHANGED pc
    /\ UNCHANGED <<completed, MODE, all_files, log_fs, run, exit_status, probe_vars,
                   success, pass, progress_file, proc, last_frame,
                   current_frame>>
    /\ UNCHANGED sched_vars

\* "Output file already exists. Skipping."
Skip ==
    /\ pc = "loop" /\ i <= Len(all_files)
    /\ exists(output_path(input_path))
    /\ results' = Report("Skipped")
    /\ i' = i + 1
    /\ shown' = NoLine
    /\ UNCHANGED <<completed, MODE, all_files, in_size, out_fs, log_fs, run, pc,
                   exit_status, probe_vars, success, pass, progress_file,
                   proc, last_frame, current_frame>>
    /\ UNCHANGED sched_vars

\* "Not a video file. Copying directly..."
CopyOther ==
    /\ pc = "loop" /\ i <= Len(all_files)
    /\ ~exists(output_path(input_path))
    /\ ~is_video(input_path)
    /\ \E sz \in Stat(input_path) :
        /\ in_size' = [in_size EXCEPT ![input_path] = sz]
        /\ out_fs' = [out_fs EXCEPT ![output_path(input_path)] =
                        copy2(input_path, sz)]
    /\ results' = ReportCopy("CopiedOther")
    /\ i' = i + 1
    /\ shown' = NoLine
    /\ UNCHANGED <<completed, MODE, all_files, log_fs, run, pc, exit_status,
                   probe_vars, success, pass, progress_file, proc,
                   last_frame, current_frame>>
    /\ UNCHANGED sched_vars

\* A video with no output yet: go on to get_video_details.
BeginVideo ==
    /\ pc = "loop" /\ i <= Len(all_files)
    /\ ~exists(output_path(input_path))
    /\ is_video(input_path)
    /\ pc' = "probe"
    /\ shown' = NoLine
    /\ UNCHANGED <<completed, MODE, all_files, in_size, out_fs, log_fs, run, i,
                   exit_status, probe_vars, success, pass, progress_file,
                   proc, last_frame, current_frame, results>>
    /\ UNCHANGED sched_vars

\* codec, bit_rate, total_frames = get_video_details(input_path).  A
\* sys.exit(1) ends the script at "exited"; an exception nothing catches ends
\* it at "raised", with the interpreter's status 1.
Probe ==
    /\ pc = "probe"
    /\ \E reply \in ProbeReplies :
        LET d == get_video_details(reply) IN
        IF d.kind = "ok"
        THEN /\ codec' = d.codec
             /\ bit_rate' = d.bit_rate
             /\ total_frames' = d.total_frames
             /\ pc' = "decide"
             /\ UNCHANGED exit_status
        ELSE /\ pc' = IF d.kind = "exit" THEN "exited" ELSE "raised"
             /\ exit_status' = 1
             /\ UNCHANGED probe_vars
    /\ UNCHANGED <<completed, MODE, all_files, in_size, out_fs, log_fs, run, i,
                   success, gpu_vars, results>>
    /\ UNCHANGED sched_vars

bitrate_threshold_kbps ==
    IF MODE = "VBR" THEN TARGET_BITRATE_KBPS ELSE CQ_THRESHOLD_KBPS

\* Variant: the VBR threshold is used whatever the mode.
already_efficient_vbr_only(c, b) ==
    c = "hevc" /\ 0 < b /\ b < TARGET_BITRATE_KBPS * 1000

\* Variant: the lower bound 0 < bit_rate is missing.
already_efficient_zero(c, b) ==
    c = "hevc" /\ b < bitrate_threshold_kbps * 1000

\* Variant: an unknown codec is taken as efficient too.
already_efficient_unknown(c, b) ==
    \/ c = "hevc" /\ 0 < b /\ b < bitrate_threshold_kbps * 1000
    \/ c = "None"

\* The test of line 366: the file is already efficient.
already_efficient(c, b) ==
    c = "hevc" /\ 0 < b /\ b < bitrate_threshold_kbps * 1000

\* "Already efficient. Copying..."  The iteration ends: its locals are not
\* read again before the next iteration assigns them, and the model drops
\* their values.
CopyEfficient ==
    /\ pc = "decide"
    /\ already_efficient(codec, bit_rate)
    /\ \E sz \in Stat(input_path) :
        /\ in_size' = [in_size EXCEPT ![input_path] = sz]
        /\ out_fs' = [out_fs EXCEPT ![output_path(input_path)] =
                        copy2(input_path, sz)]
    /\ results' = ReportCopy("Copied")
    /\ i' = i + 1
    /\ pc' = "loop"
    /\ codec' = "None" /\ bit_rate' = 0 /\ total_frames' = 0
    /\ UNCHANGED <<completed, MODE, all_files, log_fs, run, exit_status, success,
                   gpu_vars>>
    /\ UNCHANGED sched_vars

\* "Compressing (codec: ..., bitrate: ...)": call compress_video_gpu.
CallCompress ==
    /\ pc = "decide"
    /\ ~already_efficient(codec, bit_rate)
    /\ pc' = "gpu"
    /\ UNCHANGED <<completed, MODE, all_files, in_size, out_fs, log_fs, run, i,
                   exit_status, probe_vars, success, gpu_vars, results>>
    /\ UNCHANGED sched_vars

\* compress_video_gpu creates the temporary progress file and picks the
\* pass to run.  Only total_frames was passed in: the caller's codec and
\* bit_rate are not read after line 372 and the model drops their values.
CreateProgressFile ==
    /\ pc = "gpu"
    /\ progress_file' = [exists |-> TRUE, blocks |-> <<>>]
    /\ pass' = IF MODE = "VBR" THEN "pass1" ELSE "single"
    /\ pc' = "popen"
    /\ codec' = "None" /\ bit_rate' = 0
    /\ UNCHANGED <<completed, MODE, all_files, in_size, out_fs, log_fs, run, i,
                   exit_status, total_frames, success, proc, last_frame,
                   current_frame, shown, results>>
    /\ UNCHANGED sched_vars

\* ------------------------------------------------------ the engine process
\* The frame counts the engine reports; they only grow within one process.
EngineFrames == {0, 1, MaxFrame - 1, MaxFrame}

\* The run-level specification lets each engine process report one block.
CoarseFrames == {MaxFrame}

ExitCodes == {0, 1}

\* The engine opens the -progress target for writing, which truncates it.
EngineOpen ==
    /\ proc.state = "running" /\ ~proc.opened
    /\ proc' = [proc EXCEPT !.opened = TRUE]
    /\ progress_file' = [exists |-> TRUE, blocks |-> <<>>]
    /\ UNCHANGED <<completed, MODE, all_files, in_size, out_fs, log_fs, run, i, pc,
                   exit_status, probe_vars, success, pass, last_frame,
                   current_frame, shown, results>>
    /\ UNCHANGED sched_vars

\* The engine appends one key=value block, whose frame= line carries f; F
\* and n bound the frame counts and the number of blocks of one process.
EngineProgress(F, n) ==
    /\ proc.state = "running" /\ proc.opened
    /\ proc.blocks < n
    /\ \E f \in F :
        /\ f > proc.frame
        /\ proc' = [proc EXCEPT !.blocks = @ + 1, !.frame = f]
        /\ progress_file' =
            [progress_file EXCEPT
                !.blocks = Append(@, [frame |-> f, pass |-> proc.pass])]
    /\ UNCHANGED <<completed, MODE, all_files, in_size, out_fs, log_fs, run, i, pc,
                   exit_status, probe_vars, success, pass, last_frame,
                   current_frame, shown, results>>
    /\ UNCHANGED sched_vars

\* What a process can have written to its output target by the time it
\* ends: nothing (NoArtifact) or a file of some size.  Pass 1 writes to the
\* null device.  The script reads the output path only after the process
\* has ended, so the artifact is set as the process ends.
NoArtifact == 0 - 1

Artifacts(p) ==
    IF p = "pass1" THEN {NoArtifact} ELSE {NoArtifact} \cup EngineSizes

\* The engine process ends with an exit code, whatever it has written.
EngineExit ==
    /\ proc.state = "running"
    /\ \E c \in ExitCodes, art \in Artifacts(proc.pass) :
        /\ proc' = [proc EXCEPT !.state = "exited", !.code = c]
        /\ results' = Exited(c)
        /\ out_fs' = IF art = NoArtifact THEN out_fs
                     ELSE [out_fs EXCEPT ![output_path(input_path)] =
                              Encoded(input_path, art)]
    /\ UNCHANGED <<completed, MODE, all_files, in_size, log_fs, run, i, pc,
                   exit_status, probe_vars, success, pass, progress_file,
                   last_frame, current_frame, shown>>
    /\ UNCHANGED sched_vars

\* ------------------------------------------------------ compress_video_gpu
\* open(log_file_path, "w") before the first Popen of the job.
open_log ==
    IF pass \in {"pass1", "single"}
    THEN log_fs \cup {output_path(input_path)} ELSE log_fs

\* subprocess.Popen starts the engine; monitor_ffmpeg_progress is entered.
Popen ==
    /\ pc = "popen"
    /\ log_fs' = open_log
    /\ proc' = [state |-> "running", pass |-> pass, code |-> 0,
                opened |-> FALSE, blocks |-> 0, frame |-> 0 - 1]
    /\ results' = Started(pass)
    /\ pc' = "mon_wait"
    /\ UNCHANGED <<completed, MODE, all_files, in_size, out_fs, run, i, exit_status,
                   probe_vars, success, pass, progress_file, last_frame,
                   current_frame, shown>>
    /\ UNCHANGED sched_vars

\* Variant: the finally clause leaves the progress file where it is.
finally_remove_skipped == progress_file

\* Lines 322-324: the progress file after the finally clause of
\* compress_video_gpu, which removes it if it exists.
finally_remove == NoFile

\* Variant: a missing engine executable makes compress_video_gpu return
\* False, as a failed pass does.
PopenMissing_ReturnsFalse ==
    /\ pc = "popen"
    /\ log_fs' = open_log
    /\ progress_file' = NoFile
    /\ success' = FALSE
    /\ pass' = "none"
    /\ proc' = NoProc
    /\ pc' = "after"
    /\ UNCHANGED <<completed, MODE, all_files, in_size, out_fs, run, i, exit_status,
                   probe_vars, last_frame, current_frame, shown, results>>
    /\ UNCHANGED sched_vars

\* subprocess.Popen raises FileNotFoundError: the finally clause removes the
\* progress file and the script exits with status 1.
PopenMissing ==
    /\ pc = "popen"
    /\ log_fs' = open_log
    /\ progress_file' = finally_remove
    /\ pc' = "exited"
    /\ exit_status' = 1
    /\ UNCHANGED <<completed, MODE, all_files, in_size, out_fs, run, i, probe_vars,
                   success, pass, proc, last_frame, current_frame, shown,
                   results>>
    /\ UNCHANGED sched_vars

\* --------------------------------------------------- monitor_ffmpeg_progress
\* Variant: the monitor does not wait for the process to end.
poll_is_not_None_always(pr) == TRUE

\* process.poll() is not None (lines 142 and 147): the process has ended.
\* The value poll() returns is compared with None and nothing else.
poll_is_not_None(pr) == pr.state = "exited"

\* The first loop, with the progress file still empty and the process
\* ended: return without rendering anything.
MonitorEarlyReturn ==
    /\ pc = "mon_wait"
    /\ ~progress_file.exists \/ progress_file.blocks = <<>>
    /\ poll_is_not_None(proc)
    /\ pc' = "wait"
    /\ last_frame' = 0
    /\ current_frame' = NoFrame
    /\ UNCHANGED <<completed, MODE, all_files, in_size, out_fs, log_fs, run, i,
                   exit_status, probe_vars, success, pass, progress_file,
                   proc, shown, results>>
    /\ UNCHANGED sched_vars

\* The first loop ends once the progress file is not empty: last_frame = 0.
MonitorEnter ==
    /\ pc = "mon_wait"
    /\ progress_file.exists /\ progress_file.blocks # <<>>
    /\ last_frame' = 0
    /\ current_frame' = NoFrame
    /\ pc' = "mon_poll"
    /\ UNCHANGED <<completed, MODE, all_files, in_size, out_fs, log_fs, run, i,
                   exit_status, probe_vars, success, pass, progress_file,
                   proc, shown, results>>
    /\ UNCHANGED sched_vars

\* The decimal texts a cut "frame=<digits>" line can hold.
RECURSIVE Prefixes(_)
Prefixes(f) == IF f >= 10 THEN {f \div 10} \cup Prefixes(f \div 10) ELSE {}

\* What one poll can parse as progress_data["frame"]: the frame of any block
\* a read that sees a prefix of the file ends with, a cut frame line of the
\* block after it, or nothing (no frame key yet, or a text int() rejects).
Reads(pf) ==
    {NoFrame}
    \cup {pf.blocks[k].frame : k \in 1..Len(pf.blocks)}
    \cup UNION {Prefixes(pf.blocks[k].frame) : k \in 1..Len(pf.blocks)}

percent10(frame, total) ==
    IF total > 0 THEN (2 * frame * 1000 + total) \div (2 * total) ELSE 0

filled_length(frame, total) ==
    IF total > 0 THEN (bar_length * frame) \div total ELSE 0

Render(frame, total) ==
    [frame |-> frame, percent10 |-> percent10(frame, total),
     filled |-> filled_length(frame, total), complete |-> FALSE]

\* Variant: any frame other than the last one is taken.
advances_changed(cur, last) == cur # last

\* The guard of line 160: the parsed frame replaces last_frame.
advances(cur, last) == cur > last

\* One iteration of the polling loop while the process runs.
MonitorPoll ==
    /\ pc = "mon_poll" /\ ~poll_is_not_None(proc)
    /\ \E v \in Reads(progress_file) :
        /\ current_frame' = v
        /\ IF v # NoFrame /\ advances(v, last_frame)
           THEN /\ last_frame' = v
                /\ shown' = Render(v, total_frames)
           ELSE UNCHANGED <<last_frame, shown>>
    /\ UNCHANGED <<completed, MODE, all_files, in_size, out_fs, log_fs, run, i, pc,
                   exit_status, probe_vars, success, pass, progress_file,
                   proc, results>>
    /\ UNCHANGED sched_vars

\* process.poll() is not None: write the "100.0% (Complete)" line, return
\* (the monitor's locals go out of scope).
MonitorFinish ==
    /\ pc = "mon_poll" /\ poll_is_not_None(proc)
    /\ shown' = [frame |-> NoFrame, percent10 |-> 1000,
                 filled |-> bar_length, complete |-> TRUE]
    /\ pc' = "wait"
    /\ last_frame' = 0
    /\ current_frame' = NoFrame
    /\ UNCHANGED <<completed, MODE, all_files, in_size, out_fs, log_fs, run, i,
                   exit_status, probe_vars, success, pass, progress_file,
                   proc, results>>
    /\ UNCHANGED sched_vars

\* ------------------------------------- compress_video_gpu, after the monitor
\* Variant: only a negative return code (a signal) counts as a failure.
failed_signal_only(c) == c < 0

\* process.wait() != 0, the test of lines 251, 269 and 311.
failed(c) == c # 0

\* Variant: a failed pass 1 does not return and pass 2 is started.
WaitFailed_NoReturn ==
    /\ pc = "wait" /\ proc.state = "exited"
    /\ failed(proc.code)
    /\ IF pass = "pass1"
       THEN /\ pass' = "pass2"
            /\ pc' = "popen"
            /\ UNCHANGED <<success, progress_file>>
       ELSE /\ success' = FALSE
            /\ progress_file' = NoFile
            /\ pass' = "none"
            /\ pc' = "after"
    /\ proc' = NoProc
    /\ UNCHANGED <<completed, MODE, all_files, in_size, out_fs, log_fs, run, i,
                   exit_status, probe_vars, last_frame, current_frame, shown,
                   results>>
    /\ UNCHANGED sched_vars

\* A pass failed: return False; the finally clause removes the progress file.
WaitFailed ==
    /\ pc = "wait" /\ proc.state = "exited"
    /\ failed(proc.code)
    /\ success' = FALSE
    /\ progress_file' = finally_remove
    /\ proc' = NoProc
    /\ pass' = "none"
    /\ pc' = "after"
    /\ UNCHANGED <<completed, MODE, all_files, in_size, out_fs, log_fs, run, i,
                   exit_status, probe_vars, last_frame, current_frame, shown,
                   results>>
    /\ UNCHANGED sched_vars

\* Pass 1 succeeded: go on to start pass 2.
WaitPass1 ==
    /\ pc = "wait" /\ proc.state = "exited"
    /\ ~failed(proc.code) /\ pass = "pass1"
    /\ pass' = "pass2"
    /\ proc' = NoProc
    /\ pc' = "popen"
    /\ UNCHANGED <<completed, MODE, all_files, in_size, out_fs, log_fs, run, i,
                   exit_status, probe_vars, success, progress_file,
                   last_frame, current_frame, shown, results>>
    /\ UNCHANGED sched_vars

\* Variant: the log is kept after a successful encode.
remove_log_skipped == log_fs

\* Lines 273-274 and 315-316: os.remove(log_file_path) if it exists.
remove_log == log_fs \ {output_path(input_path)}

\* The last pass succeeded: remove the log, return True; the finally clause
\* removes the progress file.
WaitOk ==
    /\ pc = "wait" /\ proc.state = "exited"
    /\ ~failed(proc.code) /\ pass \in {"pass2", "single"}
    /\ log_fs' = remove_log
    /\ success' = TRUE
    /\ progress_file' = finally_remove
    /\ proc' = NoProc
    /\ pass' = "none"
    /\ pc' = "after"
    /\ UNCHANGED <<completed, MODE, all_files, in_size, out_fs, run, i, exit_status,
                   probe_vars, last_frame, current_frame, shown, results>>
    /\ UNCHANGED sched_vars

\* ------------------------------- process_files_recursively, outcome policy
FallbackCopied ==
    {"FallbackError", "FallbackEmpty", "FallbackLarger", "FallbackBelowMin"}

\* The outcomes that leave a file at the output path.
Final == {"Copied", "CopiedOther", "Compressed"} \cup FallbackCopied

\* Variant: the reduction is taken relative to the output size.
below_minimum_of_output(input_size, output_size) ==
    (input_size - output_size) * 100 < MINIMUM_COMPRESSION_PERCENT * output_size

\* reduction < MINIMUM_COMPRESSION_PERCENT with
\* reduction = ((input_size - output_size) / input_size) * 100, compared
\* exactly (the float comparison agrees on the sizes used here).
below_minimum(input_size, output_size) ==
    (input_size - output_size) * 100 < MINIMUM_COMPRESSION_PERCENT * input_size

\* Variant: only a missing output is detected, not an empty one.
outcome_of_exists_only(input_size, out) ==
    IF out.kind = "absent" THEN "FallbackEmpty"
    ELSE IF out.size >= input_size THEN "FallbackLarger"
    ELSE IF below_minimum(input_size, out.size) THEN "FallbackBelowMin"
    ELSE "Compressed"

\* Lines 385-401: the message printed for a job whose encode returned True.
outcome_of(input_size, out) ==
    IF out.kind = "absent" \/ out.size = 0 THEN "FallbackEmpty"
    ELSE IF out.size >= input_size THEN "FallbackLarger"
    ELSE IF below_minimum(input_size, out.size) THEN "FallbackBelowMin"
    ELSE "Compressed"

\* Lines 378-383: "Copying original due to compression error."  The message
\* ends the progress line; the iteration's locals are dropped as above.
AfterFailure ==
    /\ pc = "after" /\ ~success
    /\ \E sz \in Stat(input_path) :
        /\ in_size' = [in_size EXCEPT ![input_path] = sz]
        /\ out_fs' = [out_fs EXCEPT ![output_path(input_path)] =
                        copy2(input_path, sz)]
    /\ results' = ReportCopy("FallbackError")
    /\ i' = i + 1
    /\ pc' = "loop"
    /\ total_frames' = 0
    /\ shown' = NoLine
    /\ UNCHANGED <<completed, MODE, all_files, log_fs, run, exit_status, codec,
                   bit_rate, success, pass, progress_file, proc, last_frame,
                   current_frame>>
    /\ UNCHANGED sched_vars

\* Variant: the fallback messages are printed but the original is not
\* copied over the encode.
AfterSuccess_NoCopy ==
    /\ pc = "after" /\ success
    /\ \E sz \in Stat(input_path) :
        LET o == outcome_of(sz, out_fs[output_path(input_path)]) IN
        /\ in_size' = [in_size EXCEPT ![input_path] = sz]
        /\ results' = IF o = "Compressed" THEN Report(o) ELSE ReportCopy(o)
    /\ i' = i + 1
    /\ pc' = "loop"
    /\ total_frames' = 0
    /\ shown' = NoLine
    /\ UNCHANGED <<completed, MODE, all_files, out_fs, log_fs, run,
                   exit_status, codec, bit_rate, success, pass,
                   progress_file, proc, last_frame, current_frame>>
    /\ UNCHANGED sched_vars

\* Lines 385-402: keep the encode or copy the original over it.
AfterSuccess ==
    /\ pc = "after" /\ success
    /\ \E sz \in Stat(input_path) :
        LET o == outcome_of(sz, out_fs[output_path(input_path)]) IN
        /\ in_size' = [in_size EXCEPT ![input_path] = sz]
        /\ IF o = "Compressed"
           THEN /\ results' = Report(o)
                /\ UNCHANGED out_fs
           ELSE /\ results' = ReportCopy(o)
                /\ out_fs' = [out_fs EXCEPT ![output_path(input_path)] =
                                copy2(input_path, sz)]
    /\ i' = i + 1
    /\ pc' = "loop"
    /\ total_frames' = 0
    /\ shown' = NoLine
    /\ UNCHANGED <<completed, MODE, all_files, log_fs, run, exit_status, codec,
                   bit_rate, success, pass, progress_file, proc, last_frame,
                   current_frame>>
    /\ UNCHANGED sched_vars

\* ------------------------------------------------------ filesystem failures
\* os.makedirs (line 350), shutil.copy2 (lines 354, 368, 382, 388, 394, 399),
\* os.remove (line 380) or os.path.getsize (lines 385-391) raises OSError.
\* The loop has no handler for it: the exception leaves
\* process_files_recursively and the script, which catches KeyboardInterrupt
\* only, ends with the interpreter's status 1.
FilesystemError ==
    /\ \/ pc = "loop" /\ i <= Len(all_files)
            /\ ~exists(output_path(input_path))
       \/ pc = "decide" /\ already_efficient(codec, bit_rate)
       \/ pc = "after"
    /\ pc' = "raised"
    /\ exit_status' = 1
    /\ codec' = "None" /\ bit_rate' = 0 /\ total_frames' = 0
    /\ success' = FALSE
    /\ shown' = NoLine
    /\ UNCHANGED <<completed, MODE, all_files, in_size, out_fs, log_fs, run, i,
                   pass, progress_file, proc, last_frame, current_frame,
                   results>>
    /\ UNCHANGED sched_vars

\* ------------------------------------------------------------ the interrupt
\* What an engine process stopped before its end leaves at its output
\* target.
Partial(p, sz) == [kind |-> "partial", src |-> p, size |-> sz]

\* Ctrl-C while the script runs: KeyboardInterrupt is raised wherever the
\* script is.  Inside compress_video_gpu the finally clause of lines 322-324
\* removes the progress file; nothing removes the output file.  The handler
\* of lines 422-424 prints its message and exits with status 1.  An engine
\* process still running gets the signal too and stops, leaving at the
\* output path what it had written so far: nothing yet, or a part of the
\* encode (pass 1 writes to the null device).
Interrupt ==
    /\ pc \in {"loop", "probe", "decide", "gpu", "popen", "mon_wait",
               "mon_poll", "wait", "after"}
    /\ pc' = "interrupted"
    /\ exit_status' = 1
    /\ progress_file' = finally_remove
    /\ IF proc.state = "running"
       THEN /\ results' = Exited(1)
            /\ \E art \in Artifacts(proc.pass) :
                out_fs' = IF art = NoArtifact THEN out_fs
                          ELSE [out_fs EXCEPT ![output_path(input_path)] =
                                   Partial(input_path, art)]
       ELSE UNCHANGED <<results, out_fs>>
    /\ proc' = NoProc
    /\ pass' = "none"
    /\ codec' = "None" /\ bit_rate' = 0 /\ total_frames' = 0
    /\ success' = FALSE
    /\ last_frame' = 0
    /\ current_frame' = NoFrame
    /\ shown' = NoLine
    /\ UNCHANGED <<completed, MODE, all_files, in_size, log_fs, run, i>>
    /\ UNCHANGED sched_vars

\* -------------------------------------------------------------- the script
\* The script is started again over the same input and output folders.
NextRun ==
    /\ pc \in {"done", "exited", "raised", "interrupted"} /\ run < MaxRuns
    /\ run' = run + 1
    /\ i' = 1
    /\ pc' = "loop"
    /\ exit_status' = 0 - 1
    /\ codec' = "None" /\ bit_rate' = 0 /\ total_frames' = 0
    /\ success' = FALSE
    /\ pass' = "none"
    /\ proc' = NoProc
    /\ last_frame' = 0
    /\ current_frame' = NoFrame
    /\ shown' = NoLine
    /\ completed' = completed \cup
            {k \in 1..Len(all_files) : results[k].outcome \in Final}
    /\ results' = [k \in 1..MaxFiles |-> NoJob]
    /\ UNCHANGED <<MODE, all_files, in_size, out_fs, log_fs, progress_file>>
    /\ UNCHANGED sched_vars

\* The run-level specification: up to MaxFiles inputs and MaxRuns runs.
Next ==
    \/ LoopEnd \/ Skip \/ CopyOther \/ BeginVideo \/ Probe
    \/ CopyEfficient \/ CallCompress \/ CreateProgressFile
    \/ Popen \/ PopenMissing
    \/ EngineOpen \/ EngineProgress(CoarseFrames, 1)
    \/ EngineExit
    \/ MonitorEarlyReturn \/ MonitorEnter \/ MonitorPoll \/ MonitorFinish
    \/ WaitFailed \/ WaitPass1 \/ WaitOk
    \/ AfterFailure \/ AfterSuccess
    \/ NextRun

Spec == Init /\ [][Next]_vars

\* The job-level specification: one video input, whose engine processes
\* report up to MaxBlocks progress blocks over EngineFrames.
MonitorInit ==
    /\ Init
    /\ Len(all_files) = 1 /\ is_video(all_files[1])

MonitorNext ==
    \/ LoopEnd \/ Skip \/ BeginVideo \/ Probe
    \/ CopyEfficient \/ CallCompress \/ CreateProgressFile
    \/ Popen \/ PopenMissing
    \/ EngineOpen \/ EngineProgress(EngineFrames, MaxBlocks)
    \/ EngineExit
    \/ MonitorEarlyReturn \/ MonitorEnter \/ MonitorPoll \/ MonitorFinish
    \/ WaitFailed \/ WaitPass1 \/ WaitOk
    \/ AfterFailure \/ AfterSuccess
    \/ NextRun

MonitorSpec == MonitorInit /\ [][MonitorNext]_vars

\* The run-level specification over a filesystem whose operations can fail.
FaultNext == Next \/ FilesystemError

FaultSpec == Init /\ [][FaultNext]_vars

\* The job-level specification over a script the user can interrupt.
InterruptNext == MonitorNext \/ Interrupt

InterruptSpec == MonitorInit /\ [][InterruptNext]_vars

\* ================================================ src/old/compress_h265.py
\* Lines 240-241.
cpu_worker_count == IF has_cpu_encoder THEN CPU_WORKERS ELSE 0

gpu_worker_count == IF has_gpu_encoder THEN 1 ELSE 0

num_processes == gpu_worker_count + cpu_worker_count

\* Lines 264-268: use_gpu of each lane, the hardware lane first.
worker_configs ==
    (IF has_gpu_encoder THEN <<TRUE>> ELSE <<>>)
        \o [k \in 1..cpu_worker_count |-> FALSE]

\* The argument tuple of process_single_file.
Task(f, g, s) == [file |-> f, use_gpu |-> g, slot |-> s]

\* A pool worker that pool.terminate() or the exit of the main process killed.
DeadLane == [IdleLane EXCEPT !.pc = "dead"]

config_vars == <<CPU_WORKERS, has_gpu_encoder, has_cpu_encoder, num_files>>

task_vars == <<gpu_tasks, cpu_tasks, cpu_slot>>

\* src/compress.py is not running.
CoreOff ==
    /\ MODE = "CQ"
    /\ all_files = <<>>
    /\ in_size = [p \in InputPaths |-> Unread]
    /\ out_fs = [p \in OutPaths |-> Absent]
    /\ log_fs = {}
    /\ run = 1 /\ i = 1
    /\ pc = "off"
    /\ exit_status = 0 - 1
    /\ codec = "None" /\ bit_rate = 0 /\ total_frames = 0
    /\ success = FALSE
    /\ pass = "none"
    /\ progress_file = NoFile
    /\ proc = NoProc
    /\ last_frame = 0
    /\ current_frame = NoFrame
    /\ shown = NoLine
    /\ results = [k \in 1..MaxFiles |-> NoJob]
    /\ completed = {}

\* The script starts over a walked tree of num_files files.
SchedInit ==
    /\ CoreOff
    /\ CPU_WORKERS \in 1..MaxWorkers
    /\ has_gpu_encoder = FALSE /\ has_cpu_encoder = FALSE
    /\ num_files \in 0..MaxJobs
    /\ main_pc = "start"
    /\ gpu_tasks = <<>> /\ cpu_tasks = <<>>
    /\ cpu_slot = 0
    /\ pool = "none"
    /\ next_gpu = 1 /\ next_cpu = 1
    /\ lane = [p \in Procs |-> IdleLane]
    /\ running = {}
    /\ print_lock = NoHolder
    /\ cpu_results_iter = NoResults
    /\ results_list = NoResults
    /\ summary = NoSummary
    /\ main_exit = 0 - 1

\* ------------------------------------------- __main__, before the workers
\* Lines 238-247 and 261-262: with no encoder at all the script exits 1.
check_ffmpeg_encoders ==
    /\ main_pc = "start"
    /\ \E g, c \in BOOLEAN :
        /\ has_gpu_encoder' = g
        /\ has_cpu_encoder' = c
        /\ IF ~g /\ ~c
           THEN /\ main_pc' = "fatal"
                /\ main_exit' = 1
                /\ UNCHANGED cpu_slot
           ELSE /\ main_pc' = "distribute"
                /\ cpu_slot' = (IF g THEN 1 ELSE 0) + 1
                /\ UNCHANGED main_exit
    /\ UNCHANGED <<CPU_WORKERS, num_files, gpu_tasks, cpu_tasks, pool,
                   next_gpu, next_cpu, lane, running, print_lock,
                   cpu_results_iter, results_list, summary, core_vars>>

\* The loop index i of line 271: the files distributed so far.
dist_i == Len(gpu_tasks) + Len(cpu_tasks)

\* Variant: the lanes are not cycled through; every file past the lane list
\* goes to the last lane.
use_gpu_no_cycle(f) ==
    worker_configs[(IF f < Len(worker_configs) THEN f
                    ELSE Len(worker_configs) - 1) + 1]

\* Line 272: worker_configs[i % len(worker_configs)].
use_gpu_of(f) == worker_configs[(f % Len(worker_configs)) + 1]

\* Lines 277-279.
next_cpu_slot(s) ==
    IF s + 1 > gpu_worker_count + cpu_worker_count
    THEN gpu_worker_count + 1 ELSE s + 1

\* One iteration of the loop of lines 271-279.
Distribute ==
    /\ main_pc = "distribute" /\ dist_i < num_files
    /\ IF use_gpu_of(dist_i)
       THEN /\ gpu_tasks' = Append(gpu_tasks, Task(dist_i, TRUE, 1))
            /\ UNCHANGED <<cpu_tasks, cpu_slot>>
       ELSE /\ cpu_tasks' = Append(cpu_tasks, Task(dist_i, FALSE, cpu_slot))
            /\ cpu_slot' = next_cpu_slot(cpu_slot)
            /\ UNCHANGED gpu_tasks
    /\ UNCHANGED <<config_vars, main_pc, pool, next_gpu, next_cpu, lane,
                   running, print_lock, cpu_results_iter, results_list,
                   summary, main_exit, core_vars>>

\* Lines 281-317: the pool is created, when there are software workers, and
\* imap_unordered hands it cpu_tasks; the main process enters the GPU loop.
StartPool ==
    /\ main_pc = "distribute" /\ dist_i = num_files
    /\ pool' = IF cpu_worker_count > 0 THEN "running" ELSE "none"
    /\ main_pc' = "gpu_lane"
    /\ UNCHANGED <<config_vars, task_vars, next_gpu, next_cpu, lane, running,
                   print_lock, cpu_results_iter, results_list, summary,
                   main_exit, core_vars>>

\* ---------------------------------------------------- process_single_file
\* Variant: the pool's workers take tasks only once the main process
\* iterates over the results, after its GPU loop.
Working_when_collecting(p) ==
    IF p = 0 THEN main_pc = "gpu_lane"
    ELSE pool = "running" /\ p <= cpu_worker_count /\ main_pc = "collect"

\* Process p can run: the main process inside its GPU loop, a pool worker
\* while the pool lives.
Working(p) ==
    IF p = 0 THEN main_pc = "gpu_lane"
    ELSE pool = "running" /\ p <= cpu_worker_count

\* The next task of p's queue: the GPU loop walks gpu_tasks in order, the
\* pool hands cpu_tasks in order to whichever worker is free.
HasTask(p) ==
    IF p = 0 THEN next_gpu <= Len(gpu_tasks) ELSE next_cpu <= Len(cpu_tasks)

NextTask(p) == IF p = 0 THEN gpu_tasks[next_gpu] ELSE cpu_tasks[next_cpu]

Taken(p) ==
    IF p = 0 THEN next_gpu' = next_gpu + 1 /\ UNCHANGED next_cpu
    ELSE next_cpu' = next_cpu + 1 /\ UNCHANGED next_gpu

\* The call returns st: line 323 appends it to results, the pool keeps a
\* worker's result until the main process iterates over it.
Returned(p, st) ==
    IF p = 0
    THEN /\ results_list' = [results_list EXCEPT ![st] = @ + 1]
         /\ UNCHANGED cpu_results_iter
    ELSE /\ cpu_results_iter' = [cpu_results_iter EXCEPT ![st] = @ + 1]
         /\ UNCHANGED results_list

\* Lines 189-190: the output exists, return "skipped".
JobSkipped(p) ==
    /\ Working(p) /\ lane[p].pc = "idle" /\ HasTask(p)
    /\ Taken(p)
    /\ Returned(p, "skipped")
    /\ UNCHANGED <<config_vars, main_pc, task_vars, pool, lane, running,
                   print_lock, summary, main_exit, core_vars>>

\* Lines 181-192: the output does not exist, go on to the start message.
JobStart(p) ==
    /\ Working(p) /\ lane[p].pc = "idle" /\ HasTask(p)
    /\ Taken(p)
    /\ lane' = [lane EXCEPT ![p] =
                    [IdleLane EXCEPT !.pc = "start",
                                     !.file = NextTask(p).file,
                                     !.slot = NextTask(p).slot]]
    /\ UNCHANGED <<config_vars, main_pc, task_vars, pool, running,
                   print_lock, cpu_results_iter, results_list, summary,
                   main_exit, core_vars>>

\* "with print_lock:" of lines 193 and 221 is entered.
LogAcquire(p) ==
    /\ Working(p) /\ lane[p].pc \in {"start", "finish"}
    /\ print_lock = NoHolder
    /\ print_lock' = p
    /\ lane' = [lane EXCEPT ![p].pc =
                    IF @ = "start" THEN "start_log" ELSE "finish_log"]
    /\ UNCHANGED <<config_vars, main_pc, task_vars, pool, next_gpu, next_cpu,
                   running, cpu_results_iter, results_list, summary,
                   main_exit, core_vars>>

\* Line 194: the start message is written and the lock released.
StartLogged(p) ==
    /\ Working(p) /\ lane[p].pc = "start_log"
    /\ print_lock' = NoHolder
    /\ lane' = [lane EXCEPT ![p].pc = "classify"]
    /\ UNCHANGED <<config_vars, main_pc, task_vars, pool, next_gpu, next_cpu,
                   running, cpu_results_iter, results_list, summary,
                   main_exit, core_vars>>

\* Lines 222-224: the finish message is written, the lock released and
\* result_status returned.
FinishLogged(p) ==
    /\ Working(p) /\ lane[p].pc = "finish_log"
    /\ print_lock' = NoHolder
    /\ Returned(p, lane[p].status)
    /\ lane' = [lane EXCEPT ![p] = IdleLane]
    /\ UNCHANGED <<config_vars, main_pc, task_vars, pool, next_gpu, next_cpu,
                   running, summary, main_exit, core_vars>>

\* What get_video_details of this file returns; any exception gives
\* (None, 0, 0), which is among them.
Probes ==
    [codec : Codecs,
     bit_rate : {0, BITRATE_THRESHOLD - 1, BITRATE_THRESHOLD},
     total_frames : {0, MaxFrame}]

\* The test of line 201.
is_efficient(c, b) == c = "hevc" \/ (0 < b /\ b < BITRATE_THRESHOLD)

\* Lines 199-215, what result_status can become for a file that is copied:
\* a non-video, or a video taken as efficient.  The script creates no
\* output directory: copy2 raises when the target cannot be written (w is
\* FALSE), and result_status stays "error".
CopyStatuses ==
    {IF ~w THEN "error" ELSE IF video THEN "copied_video" ELSE "copied_other" :
        w \in BOOLEAN,
        video \in {v \in BOOLEAN :
                     ~v \/ \E d \in Probes : is_efficient(d.codec, d.bit_rate)}}

CopyFile(p) ==
    /\ Working(p) /\ lane[p].pc = "classify"
    /\ \E st \in CopyStatuses :
        lane' = [lane EXCEPT ![p].pc = "finish", ![p].status = st]
    /\ UNCHANGED <<config_vars, main_pc, task_vars, pool, next_gpu, next_cpu,
                   running, print_lock, cpu_results_iter, results_list,
                   summary, main_exit, core_vars>>

\* Lines 208 and 73-125: a video that is not taken as efficient;
\* compress_video_h265 starts the ffmpeg process.
Encode(p) ==
    /\ Working(p) /\ lane[p].pc = "classify"
    /\ \E d \in Probes : ~is_efficient(d.codec, d.bit_rate)
    /\ lane' = [lane EXCEPT ![p].pc = "monitor"]
    /\ running' = running \cup {[file |-> lane[p].file, use_gpu |-> p = 0]}
    /\ UNCHANGED <<config_vars, main_pc, task_vars, pool, next_gpu, next_cpu,
                   print_lock, cpu_results_iter, results_list, summary,
                   main_exit, core_vars>>

\* Variant: the monitor loop does not wait for the process.
process_ended_always(l) == TRUE

\* process.poll() is not None (line 128).
process_ended(l) == l.code # NoCode

\* Lines 139-151: a poll of the running process that finds total_frames > 0
\* and a frame key calls update_progress_line, which writes the cursor move,
\* the line clear and the text (lines 63-65).  Nothing in it, or around the
\* call, takes print_lock.  A job whose total_frames is 0 is one whose polls
\* never take this step.
MonitorUpdate(p) ==
    /\ Working(p) /\ lane[p].pc = "monitor"
    /\ ~process_ended(lane[p])
    /\ lane' = [lane EXCEPT ![p].pc = "update"]
    /\ UNCHANGED <<config_vars, main_pc, task_vars, pool, next_gpu, next_cpu,
                   running, print_lock, cpu_results_iter, results_list,
                   summary, main_exit, core_vars>>

\* Line 66: the flush that ends update_progress_line.
UpdateDone(p) ==
    /\ Working(p) /\ lane[p].pc = "update"
    /\ lane' = [lane EXCEPT ![p].pc = "monitor"]
    /\ UNCHANGED <<config_vars, main_pc, task_vars, pool, next_gpu, next_cpu,
                   running, print_lock, cpu_results_iter, results_list,
                   summary, main_exit, core_vars>>

\* An ffmpeg process ends, whether or not its parent still lives.
FfmpegExit ==
    /\ \E e \in running, c \in ExitCodes :
        /\ running' = running \ {e}
        /\ lane' = [q \in Procs |->
                IF lane[q].file = e.file /\ lane[q].pc \in {"monitor", "update"}
                THEN [lane[q] EXCEPT !.code = c]
                ELSE lane[q]]
    /\ UNCHANGED <<config_vars, main_pc, task_vars, pool, next_gpu, next_cpu,
                   print_lock, cpu_results_iter, results_list, summary,
                   main_exit, core_vars>>

\* Lines 158-166: the loop is left; after a nonzero return code the original
\* is copied, and that copy2 is inside no handler: it raises when the target
\* cannot be written (w is FALSE), as it does in a directory the script
\* never created.  The finally clause removes the progress file and calls
\* update_progress_line(slot, "").
MonitorExit(p) ==
    /\ Working(p) /\ lane[p].pc = "monitor"
    /\ process_ended(lane[p])
    /\ \E w \in BOOLEAN :
        /\ lane[p].code = 0 => w
        /\ lane' = [lane EXCEPT
                ![p].pc = "cleanup",
                ![p].status = IF lane[p].code # 0 /\ ~w
                              THEN "raise" ELSE "compressed"]
    /\ UNCHANGED <<config_vars, main_pc, task_vars, pool, next_gpu, next_cpu,
                   running, print_lock, cpu_results_iter, results_list,
                   summary, main_exit, core_vars>>

\* Line 209: compress_video_h265 returned, result_status = "compressed".
CleanupDone(p) ==
    /\ Working(p) /\ lane[p].pc = "cleanup"
    /\ lane[p].status = "compressed"
    /\ lane' = [lane EXCEPT ![p].pc = "finish"]
    /\ UNCHANGED <<config_vars, main_pc, task_vars, pool, next_gpu, next_cpu,
                   running, print_lock, cpu_results_iter, results_list,
                   summary, main_exit, core_vars>>

\* The main process ends on an exception nothing catches: the interpreter
\* exits with status 1 and the pool's workers, being daemons, are killed.
\* Their ffmpeg children are not.
Crashed ==
    [q \in Procs |->
        IF q = 0 THEN IdleLane
        ELSE IF pool = "running" /\ q <= cpu_worker_count THEN DeadLane
        ELSE lane[q]]

\* The fallback copy raised: the exception leaves process_single_file.  In
\* the GPU loop it leaves the main process too (line 332 catches
\* KeyboardInterrupt only); a pool worker hands it to the pool as the task's
\* result and takes the next task.
JobRaises(p) ==
    /\ Working(p) /\ lane[p].pc = "cleanup"
    /\ lane[p].status = "raise"
    /\ IF p = 0
       THEN /\ main_pc' = "crashed"
            /\ main_exit' = 1
            /\ pool' = IF pool = "running" THEN "terminated" ELSE pool
            /\ lane' = Crashed
            /\ UNCHANGED <<cpu_results_iter, results_list>>
       ELSE /\ Returned(p, "raise")
            /\ lane' = [lane EXCEPT ![p] = IdleLane]
            /\ UNCHANGED <<main_pc, main_exit, pool>>
    /\ UNCHANGED <<config_vars, task_vars, next_gpu, next_cpu, running,
                   print_lock, summary, core_vars>>

\* ------------------------------------------------- __main__, lines 319-349
\* The GPU loop of lines 320-323 is exhausted.
GpuLaneDone ==
    /\ main_pc = "gpu_lane"
    /\ lane[0].pc = "idle" /\ next_gpu > Len(gpu_tasks)
    /\ main_pc' = "collect"
    /\ UNCHANGED <<config_vars, task_vars, pool, next_gpu, next_cpu, lane,
                   running, print_lock, cpu_results_iter, results_list,
                   summary, main_exit, core_vars>>

\* Lines 325-326: the iterator yields a result, in completion order.
Collect ==
    /\ main_pc = "collect"
    /\ \E st \in Statuses :
        /\ cpu_results_iter[st] > 0
        /\ cpu_results_iter' = [cpu_results_iter EXCEPT ![st] = @ - 1]
        /\ results_list' = [results_list EXCEPT ![st] = @ + 1]
    /\ UNCHANGED <<config_vars, main_pc, task_vars, pool, next_gpu, next_cpu,
                   lane, running, print_lock, summary, main_exit, core_vars>>

\* Line 325: the iterator re-raises the exception of a worker's task.
CollectRaises ==
    /\ main_pc = "collect"
    /\ cpu_results_iter["raise"] > 0
    /\ cpu_results_iter' = [cpu_results_iter EXCEPT !["raise"] = @ - 1]
    /\ main_pc' = "crashed"
    /\ main_exit' = 1
    /\ pool' = IF pool = "running" THEN "terminated" ELSE pool
    /\ lane' = Crashed
    /\ UNCHANGED <<config_vars, task_vars, next_gpu, next_cpu, running,
                   print_lock, results_list, summary, core_vars>>

\* The counts of lines 345-349: results.count(st) for each status.
Counts(rs) == [st \in Statuses |-> rs[st]]

\* Lines 328-349: the iterator is exhausted, the pool is closed and joined,
\* and the summary is printed.
PrintSummary ==
    /\ main_pc = "collect"
    /\ cpu_results_iter = NoResults /\ next_cpu > Len(cpu_tasks)
    /\ \A w \in 1..cpu_worker_count : lane[w].pc = "idle"
    /\ pool' = IF pool = "running" THEN "closed" ELSE pool
    /\ summary' = Counts(results_list)
    /\ main_pc' = "summary"
    /\ main_exit' = 0
    /\ UNCHANGED <<config_vars, task_vars, next_gpu, next_cpu, lane, running,
                   print_lock, cpu_results_iter, results_list, core_vars>>

\* SIGINT reaches the main process inside the try of lines 304-330; the pool
\* workers ignore it (line 176).  A GPU job under way is unwound: its
\* "with print_lock" block releases the lock, nothing stops its ffmpeg.
KeyboardInterrupt ==
    /\ main_pc \in {"gpu_lane", "collect"}
    /\ main_pc' = "handler"
    /\ lane' = [lane EXCEPT ![0] = IdleLane]
    /\ print_lock' = IF print_lock = 0 THEN NoHolder ELSE print_lock
    /\ UNCHANGED <<config_vars, task_vars, pool, next_gpu, next_cpu, running,
                   cpu_results_iter, results_list, summary, main_exit,
                   core_vars>>

\* Lines 333-340: the message, pool.terminate(), pool.join(), sys.exit(1).
\* terminate() kills the worker processes, not the children they started.
Terminate ==
    /\ main_pc = "handler"
    /\ pool' = IF pool = "running" THEN "terminated" ELSE pool
    /\ lane' = Crashed
    /\ main_pc' = "exited"
    /\ main_exit' = 1
    /\ UNCHANGED <<config_vars, task_vars, next_gpu, next_cpu, running,
                   print_lock, cpu_results_iter, results_list, summary,
                   core_vars>>

SchedNext ==
    \/ check_ffmpeg_encoders \/ Distribute \/ StartPool
    \/ \E p \in Procs :
        \/ JobSkipped(p) \/ JobStart(p) \/ LogAcquire(p) \/ StartLogged(p)
        \/ FinishLogged(p) \/ CopyFile(p) \/ Encode(p)
        \/ MonitorUpdate(p) \/ UpdateDone(p) \/ MonitorExit(p)
        \/ CleanupDone(p) \/ JobRaises(p)
    \/ FfmpegExit
    \/ GpuLaneDone \/ Collect \/ CollectRaises \/ PrintSummary
    \/ KeyboardInterrupt \/ Terminate

\* The scheduler of src/old/compress_h265.py: up to MaxJobs files, up to
\* MaxWorkers software workers.
SchedSpec == SchedInit /\ [][SchedNext]_vars

\* Every process but p is at a wait: idle, polling its ffmpeg process, or
\* dead.
Quiet(p) ==
    \A q \in Procs \ {p} : lane[q].pc \in {"idle", "monitor", "dead"}

\* The scheduler at job granularity: the steps a process takes between two
\* waits (its messages, the probe, a copy, one progress line) are taken
\* without another process stepping in between.
LaneNext ==
    \/ check_ffmpeg_encoders \/ Distribute \/ StartPool
    \/ \E p \in Procs :
        \/ Quiet(p) /\ JobSkipped(p)
        \/ Quiet(p) /\ JobStart(p)
        \/ Quiet(p) /\ LogAcquire(p)
        \/ Quiet(p) /\ StartLogged(p)
        \/ Quiet(p) /\ FinishLogged(p)
        \/ Quiet(p) /\ CopyFile(p)
        \/ Quiet(p) /\ Encode(p)
        \/ Quiet(p) /\ MonitorUpdate(p)
        \/ Quiet(p) /\ UpdateDone(p)
        \/ Quiet(p) /\ MonitorExit(p)
        \/ Quiet(p) /\ CleanupDone(p)
        \/ Quiet(p) /\ JobRaises(p)
    \/ Quiet(NoHolder) /\ FfmpegExit
    \/ Quiet(NoHolder) /\ GpuLaneDone
    \/ Quiet(NoHolder) /\ Collect
    \/ Quiet(NoHolder) /\ CollectRaises
    \/ Quiet(NoHolder) /\ PrintSummary
    \/ Quiet(NoHolder) /\ KeyboardInterrupt
    \/ Quiet(NoHolder) /\ Terminate

LaneSpec == SchedInit /\ [][LaneNext]_vars

\* ============================================================ properties
Positions == 1..Len(all_files)

job(k) == results[k]

out_of(k) == out_fs[output_path(all_files[k])]

\* Some engine process of the job has ended with a nonzero code.
some_failed(j) == \E n \in 1..Len(j.engines) : j.engines[n].code > 0

\* Every engine process of the job has ended with code 0.
all_zero(j) == \A n \in 1..Len(j.engines) : j.engines[n].code = 0

\* C1: a video probed as hevc with a bit rate strictly between 0 and the
\* mode's threshold (TARGET_BITRATE_KBPS*1000 in VBR mode, 2,500,000 in CQ
\* mode) is copied unchanged to its output path, whatever total_frames is,
\* and no engine process is ever started for a job that ended as Copied.
C1_EfficientIsCopied ==
    /\ [][(/\ pc = "decide"
           /\ codec = "hevc"
           /\ 0 < bit_rate
           /\ bit_rate < (IF MODE = "VBR" THEN TARGET_BITRATE_KBPS * 1000
                                          ELSE 2500000))
          => /\ results'[i].outcome = "Copied"
             /\ results'[i].engines = <<>>
             /\ out_fs'[output_path(input_path)] =
                    copy2(input_path, in_size'[input_path])
             /\ in_size'[input_path] \in Stat(input_path)
             /\ pc' = "loop"]_vars
    /\ [](\A k \in Positions :
            job(k).outcome = "Copied" => job(k).engines = <<>>)

C1_Witness ==
    \E k \in Positions :
        /\ job(k).outcome = "Copied"
        /\ out_of(k) = copy2(all_files[k], in_size[all_files[k]])
        /\ job(k).copies = 1

\* C2: a video whose probed bit rate is 0 is never copied as already
\* efficient, whatever its codec: compress_video_gpu is called for it and
\* the output tree is left as it was by the decision.
C2_UnknownBitrateEncodes ==
    [][(pc = "decide" /\ bit_rate = 0)
        => /\ pc' = "gpu"
           /\ results'[i] = results[i]
           /\ out_fs' = out_fs]_vars

C2_Witness == pc = "gpu" /\ codec = "hevc" /\ bit_rate = 0

C4_CompressedPaysOff ==
    \A k \in Positions :
        job(k).outcome = "Compressed" =>
            /\ out_of(k).kind = "encoded"
            /\ out_of(k).src = all_files[k]
            /\ all_zero(job(k))
            /\ out_of(k).size < in_size[all_files[k]]
            /\ (in_size[all_files[k]] - out_of(k).size) * 100
                    >= MINIMUM_COMPRESSION_PERCENT * in_size[all_files[k]]

C4_Witness ==
    \E k \in Positions :
        /\ job(k).outcome = "Compressed"
        /\ (in_size[all_files[k]] - out_of(k).size) * 100
                = MINIMUM_COMPRESSION_PERCENT * in_size[all_files[k]]

\* C5: when an engine process of a job exits nonzero, compress_video_gpu
\* returns False, and the job, once reported, is a fallback copy: its output
\* path holds a copy of the original and no encoded artifact.
C5_FailureFallsBack ==
    /\ [][(pc = "wait" /\ proc.code # 0)
            => (pc' = "after" /\ ~success' /\ ~progress_file'.exists)]_vars
    /\ [](\A k \in Positions :
            (some_failed(job(k)) /\ job(k).outcome # "none") =>
                /\ job(k).outcome = "FallbackError"
                /\ out_of(k) = copy2(all_files[k], in_size[all_files[k]]))

C5_Witness ==
    \E k \in Positions :
        /\ job(k).engines = <<[pass |-> "pass1", code |-> 0],
                                 [pass |-> "pass2", code |-> 1]>>
        /\ job(k).outcome = "FallbackError"
        /\ out_of(k).kind = "copy"

\* C6: pass 2 is started only as the second engine process of a job whose
\* pass 1 has exited with code 0; a job whose pass 1 exited nonzero starts
\* no pass 2 and is reported as a fallback copy.
C6_Pass2AfterPass1 ==
    \A k \in Positions :
        LET e == job(k).engines IN
        /\ \A n \in 1..Len(e) :
            e[n].pass = "pass2" =>
                n = 2 /\ e[1].pass = "pass1" /\ e[1].code = 0
        /\ (Len(e) >= 1 /\ e[1].pass = "pass1" /\ e[1].code > 0) =>
                /\ Len(e) = 1
                /\ job(k).outcome \in {"none", "FallbackError"}

C6_Witness ==
    \E k, m \in Positions :
        /\ Len(job(k).engines) = 2
        /\ job(k).engines[2].pass = "pass2"
        /\ job(m).engines = <<[pass |-> "pass1", code |-> 1]>>
        /\ job(m).outcome = "FallbackError"

\* C7: when every engine process of the job exited 0 and the output file is
\* absent or empty, the job is reported as a fallback copy and its output
\* path then holds a copy of the original input.
C7_EmptyOutputFallsBack ==
    [][(/\ pc = "after"
        /\ all_zero(results[i])
        /\ \/ out_fs[output_path(input_path)].kind = "absent"
           \/ out_fs[output_path(input_path)].size = 0)
        => /\ results'[i].outcome \in FallbackCopied
           /\ out_fs'[output_path(input_path)] =
                  copy2(input_path, in_size'[input_path])]_vars

C7_Witness ==
    \E k \in Positions :
        /\ job(k).outcome = "FallbackEmpty"
        /\ job(k).engines = <<[pass |-> "single", code |-> 0]>>
        /\ out_of(k) = copy2(all_files[k], in_size[all_files[k]])
        /\ in_size[all_files[k]] > 0

\* C8: a file that reached a final outcome (a copy, a compressed artifact or
\* a fallback copy) in one run is reported as Skipped by every later run,
\* which starts no engine process and makes no copy for it.
C8_SecondRunSkips ==
    \A k \in completed :
        /\ job(k).outcome \in {"none", "Skipped"}
        /\ job(k).engines = <<>>
        /\ job(k).copies = 0

C8_Witness ==
    \E k, m \in completed :
        /\ out_of(k).kind = "encoded"
        /\ job(k).outcome = "Skipped"
        /\ out_of(m).kind = "copy"
        /\ job(m).outcome = "Skipped"
        /\ run = 2 /\ pc = "done"

\* C9: when a file already exists at the output path as an input's job
\* begins, the job is reported as Skipped, with no engine process and no
\* copy, and the output tree is left exactly as it was.
C9_SkipLeavesOutput ==
    [][(/\ pc = "loop" /\ i <= Len(all_files)
        /\ out_fs[output_path(input_path)].kind # "absent")
        => /\ results'[i].outcome = "Skipped"
           /\ results'[i].engines = <<>>
           /\ results'[i].copies = 0
           /\ out_fs' = out_fs
           /\ pc' = "loop" /\ i' = i + 1]_vars

C9_Witness ==
    \E k, m \in Positions :
        /\ k < m /\ run = 1
        /\ job(m).outcome = "Skipped"
        /\ out_of(m).kind = "encoded"
        /\ out_of(m).src = all_files[k]

\* C10: within one call of the monitor, last_frame and the frame rendered
\* on the progress line never decrease, and a poll that parses a frame not
\* above last_frame changes neither.
C10_FrameMonotone ==
    [][(pc = "mon_poll" /\ pc' = "mon_poll")
        => /\ last_frame' >= last_frame
           /\ shown'.frame >= shown.frame
           /\ shown' # shown => shown'.frame = last_frame'
           /\ (MonitorPoll /\ current_frame' <= last_frame)
                => (last_frame' = last_frame /\ shown' = shown)]_vars

C10_Witness ==
    /\ pc = "mon_poll"
    /\ current_frame # NoFrame /\ current_frame < last_frame
    /\ shown.frame = last_frame
    /\ pass = "pass1"

\* C18 as stated: a filesystem failure while handling one file is caught at
\* that file's job boundary: the file is marked Error and the loop goes on
\* with the next file.
C18_FilesystemErrorIsCaught ==
    [][FilesystemError
        => /\ results'[i].outcome = "Error"
           /\ pc' = "loop" /\ i' = i + 1
           /\ exit_status' = exit_status]_vars

\* The executable is missing: the first ffprobe call, or the second one,
\* which is made when the stream bit rate parsed as 0.
tool_missing(reply) ==
    \/ reply.run = "missing"
    \/ /\ reply.run = "ok" /\ reply.streams
       /\ reply.bit_rate = 0 /\ reply.nb_frames # NotInt
       /\ reply.format.run = "missing"

\* C19: when the probing tool or the engine executable is missing, the run
\* ends with exit status 1: get_video_details exits 1 on a missing probe, a
\* launch that starts no engine process ends the script, and a script that
\* exited this way has reported nothing for the file it was handling, has no
\* engine process or progress file left, has touched no later file of the
\* list, and takes no further step in that run.
C19_ToolMissingAborts ==
    /\ [](pc = "probe" =>
            \A reply \in ProbeReplies :
                tool_missing(reply) => get_video_details(reply).kind = "exit")
    /\ [][(pc = "probe" /\ pc' \notin {"decide", "raised"})
            => (pc' = "exited" /\ exit_status' = 1)]_vars
    /\ [][(pc = "popen" /\ pc' # "mon_wait")
            => (pc' = "exited" /\ exit_status' = 1)]_vars
    /\ [](pc = "exited" =>
            /\ exit_status = 1
            /\ i <= Len(all_files)
            /\ job(i).outcome = "none" /\ job(i).copies = 0
            /\ proc.state # "running" /\ ~progress_file.exists
            /\ \A k \in Positions : k > i => job(k) = NoJob)
    /\ [][pc = "exited" => run' = run + 1]_vars

C19_Witness ==
    /\ pc = "exited" /\ exit_status = 1 /\ run = 1
    /\ i = 1 /\ Len(all_files) = 2
    /\ output_path(all_files[1]) \in log_fs
    /\ out_of(2).kind = "absent"

\* The probe ran and its output does not parse, or holds no video stream.
parse_failure(reply) ==
    \/ reply.run = "badjson"
    \/ reply.run = "ok" /\ ~reply.streams
    \/ /\ reply.run = "ok" /\ reply.streams
       /\ \/ reply.bit_rate = NotInt
          \/ reply.nb_frames = NotInt
          \/ /\ reply.bit_rate = 0
             /\ \/ reply.format.run = "badjson"
                \/ reply.format.run = "ok" /\ reply.format.bit_rate = NotInt

\* C20 as stated: whenever the probe runs but returns no video stream or
\* output that fails to parse, get_video_details returns (None, 0, 0) and
\* raises nothing.
C20_ParseFailureIsProbeFailed ==
    \A reply \in ProbeReplies :
        parse_failure(reply) =>
            get_video_details(reply) = Details("ok", "None", 0, 0)

\* The members of a sequence.
Range(seq) == {seq[k] : k \in 1..Len(seq)}

\* Process p is inside compress_video_h265, whose progress lines go to the
\* terminal row of its slot.
Encoding(p) == lane[p].pc \in {"monitor", "update", "cleanup"}

\* Process p is inside update_progress_line.
Writing(p) == lane[p].pc \in {"update", "cleanup"}

\* C11 as stated: no terminal row is written by two jobs that are active at
\* the same time: a process writing the row of its slot is the only process
\* inside an encode with that slot.
C11_RowHasOneWriter ==
    \A p, q \in Procs :
        (p # q /\ Writing(p) /\ Encoding(q)) => lane[p].slot # lane[q].slot

\* How many statuses a results list holds.
Total(rs) ==
    rs["compressed"] + rs["copied_video"] + rs["copied_other"]
        + rs["skipped"] + rs["error"]

\* C12 as stated: a run that no interrupt ended has accumulated exactly one
\* status per input file, so that the five counts sum to the number of
\* input files.
C12_OneStatusPerFile ==
    main_pc \in {"summary", "crashed"} =>
        /\ Total(results_list) = num_files
        /\ summary # NoSummary
        /\ Total(summary) = num_files

\* C13 as stated: every write of a progress line to a terminal row is made
\* while holding the print lock.
C13_ProgressWriteHoldsLock ==
    \A p \in Procs : Writing(p) => print_lock = p

\* C14: once the encoders are known, the files distributed so far are
\* assigned round-robin: file f (0-based) goes to lane f mod L of the lane
\* list [hardware lane if present, software lanes 1..N], the hardware lane
\* having row 1 and the lane at position l row l + 1; each list keeps the
\* file order; with no hardware encoder every file is a software task, with
\* no software worker every file is a hardware task; and the workers start
\* only when every file has been assigned.
C14_RoundRobin ==
    main_pc \notin {"start", "fatal", "off"} =>
        LET L == gpu_worker_count + cpu_worker_count IN
        /\ \A f \in 0..(dist_i - 1) :
            IF has_gpu_encoder /\ f % L = 0
            THEN /\ Task(f, TRUE, 1) \in Range(gpu_tasks)
                 /\ \A t \in Range(cpu_tasks) : t.file # f
            ELSE /\ Task(f, FALSE, (f % L) + 1) \in Range(cpu_tasks)
                 /\ \A t \in Range(gpu_tasks) : t.file # f
        /\ \A k \in 1..(Len(gpu_tasks) - 1) :
                gpu_tasks[k].file < gpu_tasks[k + 1].file
        /\ \A k \in 1..(Len(cpu_tasks) - 1) :
                cpu_tasks[k].file < cpu_tasks[k + 1].file
        /\ ~has_gpu_encoder => Len(cpu_tasks) = dist_i
        /\ cpu_worker_count = 0 => Len(gpu_tasks) = dist_i
        /\ dist_i <= num_files
        /\ main_pc # "distribute" => dist_i = num_files

C14_Witness ==
    /\ has_gpu_encoder /\ cpu_worker_count = 1
    /\ main_pc = "gpu_lane"
    /\ gpu_tasks = <<Task(0, TRUE, 1), Task(2, TRUE, 1)>>
    /\ cpu_tasks = <<Task(1, FALSE, 2)>>

\* C15: in every reachable state at most one hardware-lane ffmpeg process is
\* running and at most CPU_WORKERS software-lane ffmpeg processes are
\* running.
C15_EngineLimits ==
    /\ Cardinality({e \in running : e.use_gpu}) <= 1
    /\ Cardinality({e \in running : ~e.use_gpu}) <= CPU_WORKERS

C15_Witness ==
    /\ Cardinality({e \in running : e.use_gpu}) = 1
    /\ Cardinality({e \in running : ~e.use_gpu}) = CPU_WORKERS
    /\ CPU_WORKERS = MaxWorkers
    /\ main_pc = "gpu_lane"

\* C16 as stated: an interrupted scheduler exits nonzero only after printing
\* a partial summary, whose counts are those of the results completed before
\* the interrupt.
C16_InterruptPrintsSummary ==
    main_pc = "exited" =>
        /\ main_exit # 0
        /\ summary # NoSummary
        /\ summary = Counts(results_list)

\* C17 as stated: once the interrupt has arrived no queued task is started
\* on any lane and no ffmpeg process is started, and once the scheduler has
\* exited no ffmpeg process started by the run is still running.
C17_InterruptStopsJobs ==
    /\ [][(main_pc \in {"handler", "exited"})
            => /\ next_gpu' = next_gpu /\ next_cpu' = next_cpu
               /\ running' \subseteq running]_vars
    /\ [](main_pc = "exited" => running = {})

\* The final outcomes of a file: Skipped, a copy, Compressed, a fallback
\* copy, or Error.
Outcomes == Final \cup {"Skipped", "Error"}

\* C21 as stated: every file of the walked list reaches exactly one final
\* outcome: a run that has ended, other than by the exit for a missing tool,
\* has reported one outcome for every file of the list.
C21_EveryFileHasOutcome ==
    pc \in {"done", "raised"} =>
        \A k \in Positions : job(k).outcome \in Outcomes

\* The control locations inside compress_video_gpu once the progress file
\* has been created.
InCompress == {"popen", "mon_wait", "mon_poll", "wait"}

\* C22: inside compress_video_gpu the progress file exists from before the
\* first engine process is started, through every read of the monitor, to
\* the last pass; no engine process is started without it; and once
\* compress_video_gpu has returned (True or False) or raised (the engine
\* executable is missing), in one pass or in two, the file is gone.
C22_ProgressFileLifetime ==
    /\ [](pc \in InCompress => progress_file.exists)
    /\ [](proc.state # "none" => progress_file.exists)
    /\ [](pc \notin InCompress => ~progress_file.exists)
    /\ [][(pc \in InCompress /\ pc' \notin InCompress)
            => (pc' \in {"after", "exited"} /\ ~progress_file'.exists)]_vars
    /\ [][(proc.state = "none" /\ proc'.state # "none")
            => (progress_file.exists /\ progress_file'.exists)]_vars

C22_Witness ==
    /\ pc = "after" /\ ~success /\ ~progress_file.exists
    /\ results[i].engines = <<[pass |-> "pass1", code |-> 0],
                              [pass |-> "pass2", code |-> 1]>>

\* The control locations inside monitor_ffmpeg_progress.
InMonitor == {"mon_wait", "mon_poll"}

\* C23: monitor_ffmpeg_progress returns only when the engine process has
\* exited, also when the process ended before writing anything to the
\* progress file; its return changes nothing the exit code decides (the
\* returned success, the job's outcome, the output tree, the log, the
\* script's exit status) and hands control to the caller's wait; and success
\* or the job's outcome change only after that wait, never inside the
\* monitor.
C23_MonitorReturnsAtExit ==
    /\ [][(pc \in InMonitor /\ pc' \notin InMonitor)
            => /\ proc.state = "exited"
               /\ pc' = "wait"
               /\ UNCHANGED <<proc, success, out_fs, log_fs, exit_status,
                              results, progress_file>>]_vars
    /\ [][(pc \in InMonitor)
            => /\ success' = success
               /\ results'[i].outcome = results[i].outcome
               /\ log_fs' = log_fs
               /\ exit_status' = exit_status]_vars
    /\ [](pc = "wait" => proc.state = "exited")
    /\ [][(pc = "wait" /\ pc' # "wait")
            => (pc' = "after" /\ success' = (proc.code = 0))
                \/ (pc' = "popen" /\ proc.code = 0)]_vars

C23_Witness ==
    /\ pc = "wait" /\ proc.state = "exited" /\ proc.code = 1
    /\ ~proc.opened /\ progress_file.blocks = <<>>
    /\ shown = NoLine

\* A progress line of the polling loop is on the terminal: a bar and a
\* percentage computed from a frame the monitor read.
Rendered == shown.frame # NoFrame /\ ~shown.complete

\* C24 as stated: whenever total_frames > 0, what the monitor computes and
\* renders stays within bounds for every frame value read: the percentage
\* within 0..100 (in tenths, 0..1000) and the filled part of the bar within
\* 0..bar_length.
C24_FractionWithinBounds ==
    (pc = "mon_poll" /\ total_frames > 0 /\ Rendered) =>
        /\ 0 <= shown.percent10 /\ shown.percent10 <= 1000
        /\ 0 <= shown.filled /\ shown.filled <= bar_length

\* C25 as stated: when total_frames = 0, the polling loop of the monitor
\* writes no progress line carrying a numeric percentage.
C25_NoPercentWithoutTotal ==
    (pc = "mon_poll" /\ total_frames = 0) => ~Rendered

\* <output stem>_ffmpeg_log.txt of the job at position k exists.
log_of(k) == output_path(all_files[k]) \in log_fs

\* C26: once a job that went through compress_video_gpu is reported, its
\* log exists if and only if one of its engine processes failed: the log is
\* gone after every encode whose passes all exited 0, whether the encode was
\* kept or replaced by a fallback copy for its size, and it is there after
\* every failed pass.
C26_LogIffFailed ==
    \A k \in Positions :
        (job(k).engines # <<>> /\ job(k).outcome # "none") =>
            /\ log_of(k) <=> some_failed(job(k))
            /\ all_zero(job(k)) <=> ~some_failed(job(k))

C26_Witness ==
    \E k, m \in Positions :
        /\ job(k).outcome = "FallbackLarger" /\ all_zero(job(k))
        /\ ~log_of(k)
        /\ job(m).outcome = "FallbackError"
        /\ job(m).engines = <<[pass |-> "pass1", code |-> 1]>>
        /\ log_of(m)

\* Process p is inside a process_single_file call that passed the
\* output-exists test: a job of its task's lane is under way.
Active(p) == lane[p].pc \notin {"idle", "dead"}

\* The queue process p takes its tasks from, and how far it has been taken.
Queue(p) == IF p = 0 THEN gpu_tasks ELSE cpu_tasks

QueueNext(p) == IF p = 0 THEN next_gpu ELSE next_cpu

\* C27 as stated: the jobs of one lane (one terminal row) run one at a time
\* and in the order assigned: two jobs under way at the same time are never
\* of the same lane, and while a job of a lane is under way every job
\* assigned to that lane before it has been taken from its queue.
C27_LaneOrder ==
    /\ \A p, q \in Procs :
        (p # q /\ Active(p) /\ Active(q)) => lane[p].slot # lane[q].slot
    /\ \A p \in Procs :
        Active(p) =>
            \A k \in 1..Len(Queue(p)) :
                (Queue(p)[k].slot = lane[p].slot
                    /\ Queue(p)[k].file < lane[p].file) => k < QueueNext(p)

\* C28 as stated: the status "compressed" is the status only of a job whose
\* ffmpeg process exited with code 0.
C28_CompressedMeansExitZero ==
    \A p \in Procs :
        (lane[p].pc \in {"cleanup", "finish", "finish_log"}
            /\ lane[p].status = "compressed") => lane[p].code = 0

\* The test of src/compress_crf.py line 183, with its BITRATE_THRESHOLD.
crf_is_efficient(c, b) == c = "hevc" \/ (0 < b /\ b < CRF_BITRATE_THRESHOLD)

\* C29 as stated: when a job reaches the efficiency test, no probe result
\* whose bit rate is 0 is taken as already efficient, whatever the codec, by
\* the test of either variant.
C29_ZeroBitrateNotEfficient ==
    \A p \in Procs :
        lane[p].pc = "classify" =>
            \A d \in Probes :
                d.bit_rate = 0 =>
                    /\ ~is_efficient(d.codec, d.bit_rate)
                    /\ ~crf_is_efficient(d.codec, d.bit_rate)

\* C30 as stated: an exception raised inside one job never leaves
\* process_single_file: no call ends by raising, the pool iterator holds no
\* exception to re-raise, and the main process is never ended by one.
C30_JobFailureIsContained ==
    /\ \A p \in Procs : lane[p].status # "raise"
    /\ cpu_results_iter["raise"] = 0
    /\ main_pc # "crashed"

\* C31: while the main process is monitoring a hardware-lane job, the pool
\* is running and the main process does not hold print_lock; every software
\* worker can take its next step: an idle worker with a queued task can
\* start it, a worker at a message can take the free lock, a worker past the
\* start message can copy or start its encode, and a worker monitoring its
\* own ffmpeg process can go on.
C31_LanesIndependent ==
    (main_pc = "gpu_lane" /\ lane[0].pc = "monitor") =>
        /\ print_lock # 0
        /\ cpu_worker_count > 0 => pool = "running"
        /\ \A p \in 1..cpu_worker_count :
            /\ (lane[p].pc = "idle" /\ next_cpu <= Len(cpu_tasks))
                    => ENABLED (JobStart(p) \/ JobSkipped(p))
            /\ (lane[p].pc \in {"start", "finish"} /\ print_lock = NoHolder)
                    => ENABLED LogAcquire(p)
            /\ lane[p].pc = "classify" => ENABLED (CopyFile(p) \/ Encode(p))
            /\ lane[p].pc = "monitor"
                    => ENABLED (MonitorUpdate(p) \/ MonitorExit(p))

\* Two software jobs have started, run and finished while the first
\* hardware-lane job is still being monitored.
C31_Witness ==
    /\ main_pc = "gpu_lane" /\ lane[0].pc = "monitor"
    /\ lane[0].file = 0 /\ next_gpu = 2
    /\ lane[0].code = NoCode
    /\ next_cpu = 3
    /\ cpu_results_iter["compressed"] = 2

\* The file is a whole copy of its input, or a whole encode that passed the
\* size policy of lines 385-401.
Complete(f) ==
    \/ f.kind = "copy" /\ f.size = in_size[f.src]
    \/ /\ f.kind = "encoded"
       /\ f.size > 0 /\ f.size < in_size[f.src]
       /\ ~below_minimum(in_size[f.src], f.size)

\* C32 as stated: whenever no job is under way (between two jobs, and after
\* the script has ended, an interrupt in the middle of an encode included),
\* every file present in the output tree is a complete encode that passed
\* the size policy or a complete copy of its input; and a job reported as
\* Skipped has such a file at its output path.
C32_OutputsAreComplete ==
    /\ pc \in {"loop", "done", "exited", "raised", "interrupted"} =>
        \A o \in OutPaths : out_fs[o].kind # "absent" => Complete(out_fs[o])
    /\ \A k \in Positions :
        job(k).outcome = "Skipped" => Complete(out_of(k))

\* C33 as stated: in the first run, which starts with an empty output tree,
\* no input file is reported as Skipped: every file the run has handled was
\* copied or encoded by it, and its output path holds what was made from it.
C33_NoSkipInFirstRun ==
    run = 1 =>
        \A k \in Positions :
            /\ job(k).outcome # "Skipped"
            /\ job(k).outcome \in Final => out_of(k).src = all_files[k]

\* Frame value v was read from what the running pass's engine process has
\* written: the process has opened (and so truncated) the progress file, and
\* v is the frame of one of its blocks or a cut line of one.
FromThisPass(v) == proc.opened /\ v \in Reads(progress_file) \ {NoFrame}

\* C34 as stated: during pass 2 of a two-pass encode, every frame value the
\* monitor has recorded in last_frame or rendered was written by the pass-2
\* engine process.
C34_Pass2ReadsPass2 ==
    (pc = "mon_poll" /\ pass = "pass2") =>
        /\ last_frame > 0 => FromThisPass(last_frame)
        /\ Rendered => FromThisPass(shown.frame)

\* C35: whenever a job is reported as a fallback copy, for an engine
\* failure, an absent or empty output, an output not smaller than the input
\* or a reduction below the minimum, its output path holds a copy of the
\* original, of the size of the input, made by that job's one copy; nothing
\* the engine wrote is left there.
C35_FallbackLeavesOriginal ==
    \A k \in Positions :
        job(k).outcome \in FallbackCopied =>
            /\ out_of(k).kind = "copy"
            /\ out_of(k).src = all_files[k]
            /\ in_size[all_files[k]] # Unread
            /\ out_of(k).size = in_size[all_files[k]]
            /\ job(k).copies = 1

C35_Witness ==
    \E k, m \in Positions :
        /\ job(k).outcome = "FallbackBelowMin"
        /\ out_of(k).kind = "copy" /\ out_of(k).size = MaxSize
        /\ job(m).outcome = "FallbackError"
        /\ job(m).engines = <<[pass |-> "single", code |-> 1]>>
        /\ out_of(m).kind = "copy" /\ out_of(m).size = MaxSize - 1

====
